---- MODULE Spec2Model ----
(***************************************************************************)
(* RegistrationFormModal (project/src/components/RegistrationFormModal.tsx) *)
(* as a state machine: one mounted modal instance, the remote store it      *)
(* reads (registration_forms, form_fields) and writes (form_submissions),   *)
(* and the requests in flight between the two.                              *)
(*                                                                          *)
(* Strings typed by the user are sequences of one-character strings, so     *)
(* that the two regular expressions of validateForm are computed character  *)
(* by character.  A draft value is a tagged record: "undef" (no key in      *)
(* formData), "str" (a string) or "arr" (the array of a checkbox group);    *)
(* JavaScript's truthiness differs between '' and [], so the tag is kept.   *)
(***************************************************************************)
EXTENDS Integers, Sequences, FiniteSets, TLC

VARIABLES
    mounted,        \* the modal instance exists (parent renders it)
    formId,         \* prop formId
    programId,      \* prop programId ("undefined" when not given)
    courseId,       \* prop courseId  ("undefined" when not given)
    form,           \* useState form (NullForm = null)
    fields,         \* useState fields
    formData,       \* useState formData: field id -> draft value
    errors,         \* useState errors: a map from some field ids to messages
    isSubmitting,   \* useState isSubmitting
    isSuccess,      \* useState isSuccess
    pendingLoads,   \* loadForm calls awaiting Promise.all, counted per form id
    inflight,       \* inserts into form_submissions awaiting their response
    submissions,    \* rows of the table form_submissions
    last,           \* the handler that ran last, and the field it ran on
    settings,       \* useState settings of HeroSection and Home: key -> value
    lookup,         \* the getSetting call rendered last, and what it returned
    headerLoads,    \* Header: the reads of its mount effect not yet resolved
    navigation,     \* Header: useState navigation
    programs,       \* Header: useState programs
    isMenuOpen,     \* Header: useState isMenuOpen
    openDropdown,   \* Header: useState openDropdown (an item id, or "null")
    navigatedTo,    \* Header: the path passed to onNavigate last
    click,          \* Header: the control activated last
    siteSettings,   \* SettingsManager: useState settings ("pending" read, "null", "loaded")
    saving,         \* SettingsManager: useState saving
    message,        \* SettingsManager: useState message
    messageBy,      \* SettingsManager: the save that set the message (0: none)
    updates,        \* SettingsManager: update calls awaiting their response
    saveCount,      \* SettingsManager: handleSave calls that have completed
    timers,         \* SettingsManager: the setTimeout callbacks not yet run
    now             \* SettingsManager: the clock, in seconds

\* The state of the pages around the modal
headerVars == <<headerLoads, navigation, programs, isMenuOpen, openDropdown,
                navigatedTo, click>>
managerVars == <<siteSettings, saving, message, messageBy, updates, saveCount,
                 timers, now>>
pageVars == <<settings, lookup, headerVars, managerVars>>

vars == <<mounted, formId, programId, courseId, form, fields, formData, errors,
          isSubmitting, isSuccess, pendingLoads, inflight, submissions, last,
          settings, lookup, headerVars, managerVars>>

----------------------------------------------------------------------------
(* Bounds *)

MaxRows == 3        \* rows of page_settings returned for a page in SpecS
MaxToggles == 4     \* length of the sequences of checkbox clicks compared

MaxLoads == 2       \* loadForm calls outstanding at once
MaxInflight == 2    \* inserts outstanding at once (the code allows one)
MaxEmailLen == 5    \* length of the strings typed into an email field in SpecV
MaxPhoneLen == 3    \* length of the strings typed into a phone field in SpecV

----------------------------------------------------------------------------
(* Values *)

Undefined == [t |-> "undef", v |-> <<>>]
Str(s) == [t |-> "str", v |-> s]
Arr(a) == [t |-> "arr", v |-> a]
EmptyStr == Str(<<>>)

\* JavaScript truthiness of a draft value: undefined and '' are falsy,
\* every array (the empty one too) and every non-empty string is truthy.
Truthy(x) == \/ x.t = "arr"
             \/ x.t = "str" /\ x.v # <<>>

\* x || y
OrElse(x, y) == IF Truthy(x) THEN x ELSE y

Whitespace == {" ", "\t"}
Digits == {"0", "1", "2", "3", "4", "5", "6", "7", "8", "9"}

\* The strings the user types in Spec, by the type of the field
ValidEmail == <<"a", "@", "b", ".", "c">>
ValidPhone == <<"1", "2">>
StrValues(type) ==
    CASE type = "email" -> {<<>>, ValidEmail, <<"a">>}
      [] type = "phone" -> {<<>>, ValidPhone, <<"a">>}
      [] OTHER          -> {<<>>, <<"a">>}

\* The strings typed in SpecV, by the type of the field
EmailAlphabet == {"a", "@", ".", " "}
PhoneAlphabet == {"1", " ", "-", "+", "(", ")", "a"}
RECURSIVE StringsUpTo(_, _)
StringsUpTo(alphabet, n) ==
    IF n = 0 THEN {<<>>}
    ELSE LET shorter == StringsUpTo(alphabet, n - 1)
         IN shorter \cup {Append(s, c) : s \in {x \in shorter : Len(x) = n - 1}, c \in alphabet}
ProbeStrings(type) ==
    CASE type = "email" -> StringsUpTo(EmailAlphabet, MaxEmailLen)
      [] type = "phone" -> StringsUpTo(PhoneAlphabet, MaxPhoneLen)
      [] OTHER          -> StringsUpTo(EmailAlphabet, 1)

----------------------------------------------------------------------------
(* The remote store: registration_forms and form_fields *)

FormIds == {"f1", "f2"}

NullForm == [id |-> "null", name |-> "", success_message |-> ""]

StoredForm(fid) ==
    IF fid = "f1"
    THEN [id |-> "f1", name |-> "Retreat", success_message |-> "Thank you"]
    ELSE [id |-> "f2", name |-> "Callback", success_message |-> "We will call you"]

Field(id, label, type, options, required, sort) ==
    [id |-> id, label |-> label, field_type |-> type, options |-> options,
     is_required |-> required, sort_order |-> sort]

\* select('*').eq('form_id', fid).order('sort_order')
StoredFields(fid) ==
    IF fid = "f1"
    THEN << Field("n", "Name", "text", <<>>, TRUE, 1),
            Field("e", "Email", "email", <<>>, FALSE, 2) >>
    ELSE << Field("d", "Days", "checkbox", <<"Mon", "Tue">>, TRUE, 1) >>

\* The forms of one field that SpecV submits
ProbeForm == [id |-> "probe", name |-> "Probe", success_message |-> "Done"]
ProbeFields ==
    { << Field("x", "Probe", type, <<>>, req, 1) >> :
         type \in {"text", "email", "phone"}, req \in BOOLEAN }

AllFieldIds == {"n", "e", "d", "x"}

Range(s) == {s[i] : i \in 1..Len(s)}
FieldIdsOf(fs) == {fs[i].id : i \in 1..Len(fs)}
LabelsOf(fs) == {fs[i].label : i \in 1..Len(fs)}
FieldById(fs, id) == CHOOSE f \in Range(fs) : f.id = id

EmptyDraft == [f \in AllFieldIds |-> Undefined]
NoErrors == << >>

----------------------------------------------------------------------------
(* Regular expressions of validateForm *)
\* InClass with '+' left out of the phone class
InClass_NoPlus(cls, c) ==
    CASE cls = "notSpaceAt" -> c \notin Whitespace /\ c # "@"
      [] cls = "at"         -> c = "@"
      [] cls = "dot"        -> c = "."
      [] cls = "phone"      -> \/ c \in Digits
                               \/ c \in Whitespace
                               \/ c \in {"-", "(", ")"}
      [] OTHER              -> FALSE

\* Character classes
InClass(cls, c) ==
    CASE cls = "notSpaceAt" -> c \notin Whitespace /\ c # "@"      \* [^\s@]
      [] cls = "at"         -> c = "@"                             \* @
      [] cls = "dot"        -> c = "."                             \* \.
      [] cls = "phone"      -> \/ c \in Digits                     \* [\d\s\-\+\(\)]
                               \/ c \in Whitespace
                               \/ c \in {"-", "+", "(", ")"}
      [] OTHER              -> FALSE

Tok(cls, plus) == [cls |-> cls, plus |-> plus]
\* emailRegex without the dot: /^[^\s@]+@[^\s@]+$/
emailRegex_NoDot == << Tok("notSpaceAt", TRUE), Tok("at", FALSE), Tok("notSpaceAt", TRUE) >>

\* /^[^\s@]+@[^\s@]+\.[^\s@]+$/
emailRegex == << Tok("notSpaceAt", TRUE), Tok("at", FALSE), Tok("notSpaceAt", TRUE),
                 Tok("dot", FALSE), Tok("notSpaceAt", TRUE) >>

\* /^[\d\s\-\+\(\)]+$/
phoneRegex == << Tok("phone", TRUE) >>

\* An anchored match (^...$) of the tokens pat[pi..] against s[si..], by
\* backtracking over the length taken by each '+'.
RECURSIVE MatchFrom(_, _, _, _)
MatchFrom(pat, s, pi, si) ==
    IF pi > Len(pat) THEN si > Len(s)
    ELSE IF pat[pi].plus
         THEN \E k \in si..Len(s) :
                 /\ \A m \in si..k : InClass(pat[pi].cls, s[m])
                 /\ MatchFrom(pat, s, pi + 1, k + 1)
         ELSE /\ si <= Len(s)
              /\ InClass(pat[pi].cls, s[si])
              /\ MatchFrom(pat, s, pi + 1, si + 1)

\* regex.test(s)
Test(regex, s) == MatchFrom(regex, s, 1, 1)

----------------------------------------------------------------------------
(* validateForm and the submission transform *)

\* obj[key] = value on a map kept as a function
Put(map, key, value) ==
    [k \in DOMAIN map \cup {key} |-> IF k = key THEN value ELSE map[k]]

\* errors[fieldId] as a condition: a missing key and '' are both falsy
HasError(errs, id) == id \in DOMAIN errs /\ errs[id] # ""

\* The body of fields.forEach in validateForm, for one field
ValidateField(newErrors, field, data) ==
    LET x == data[field.id]
        e1 == IF field.is_required /\ ~Truthy(x)
              THEN Put(newErrors, field.id, field.label \o " is required")
              ELSE newErrors
        e2 == IF field.field_type = "email" /\ Truthy(x) /\ ~Test(emailRegex, x.v)
              THEN Put(e1, field.id, "Please enter a valid email address")
              ELSE e1
        e3 == IF field.field_type = "phone" /\ Truthy(x) /\ ~Test(phoneRegex, x.v)
              THEN Put(e2, field.id, "Please enter a valid phone number")
              ELSE e2
    IN e3

\* newErrors after the first k fields
RECURSIVE ValidateUpTo(_, _, _)
ValidateUpTo(fs, data, k) ==
    IF k = 0 THEN NoErrors
    ELSE ValidateField(ValidateUpTo(fs, data, k - 1), fs[k], data)

\* newErrors of validateForm
validateForm(fs, data) == ValidateUpTo(fs, data, Len(fs))

\* responses after the first k fields: responses[field.label] = formData[field.id] || ''
RECURSIVE ResponsesUpTo(_, _, _)
ResponsesUpTo(fs, data, k) ==
    IF k = 0 THEN << >>
    ELSE Put(ResponsesUpTo(fs, data, k - 1), fs[k].label, OrElse(data[fs[k].id], EmptyStr))

Responses(fs, data) == ResponsesUpTo(fs, data, Len(fs))

\* x || null for the optional props
OrNull(x) == IF x = "undefined" \/ x = "" THEN "null" ELSE x

\* InsertRow with programId and courseId exchanged
InsertRow_IdsExchanged(fid, pid, cid, fs, data) ==
    [form_id |-> fid, program_id |-> OrNull(cid), course_id |-> OrNull(pid),
     responses |-> Responses(fs, data)]

\* The row handed to supabase.from('form_submissions').insert
InsertRow(fid, pid, cid, fs, data) ==
    [form_id |-> fid, program_id |-> OrNull(pid), course_id |-> OrNull(cid),
     responses |-> Responses(fs, data)]

----------------------------------------------------------------------------
(* What is rendered *)

View ==
    IF ~mounted THEN "unmounted"
    ELSE IF isSuccess /\ form # NullForm THEN "success"
    ELSE IF form = NullForm THEN "null"
    ELSE "form"

\* onClick={onClose}: the X and Cancel buttons of the form view and the
\* Close button of the success panel
CloseRendered == View \in {"form", "success"}
\* SubmitEnabled without disabled={isSubmitting}
SubmitEnabled_NotDisabled == View = "form"

\* <button type="submit" disabled={isSubmitting}>
SubmitEnabled == View = "form" /\ ~isSubmitting

TotalLoads == pendingLoads["f1"] + pendingLoads["f2"]

Op(op, f) == [op |-> op, f |-> f]

\* useState<PageSettings>({}), and no getSetting call rendered yet
NoSettings == << >>
NoLookup == [key |-> "-", defaultValue |-> "-", result |-> "-"]

\* No Header is rendered
NoClick == [menu |-> "-", control |-> "-", item |-> "-"]
HeaderUnused ==
    /\ headerLoads = {}
    /\ navigation = << >>
    /\ programs = << >>
    /\ isMenuOpen = FALSE
    /\ openDropdown = "null"
    /\ navigatedTo = << "-" >>
    /\ click = NoClick

\* No SettingsManager is rendered
ManagerUnused ==
    /\ siteSettings = "null"
    /\ saving = FALSE
    /\ message = ""
    /\ messageBy = 0
    /\ updates = 0
    /\ saveCount = 0
    /\ timers = {}
    /\ now = 0

----------------------------------------------------------------------------
(* Initial state: the component has mounted and its effect has called loadForm *)

\* The props programId and courseId: given, not given, or given empty
Props == { <<"p1", "undefined">>, <<"", "c1">> }

Init ==
    /\ mounted = TRUE
    /\ formId \in FormIds
    /\ \E props \in Props : programId = props[1] /\ courseId = props[2]
    /\ form = NullForm
    /\ fields = << >>
    /\ formData = EmptyDraft
    /\ errors = NoErrors
    /\ isSubmitting = FALSE
    /\ isSuccess = FALSE
    /\ pendingLoads = [f \in FormIds |-> IF f = formId THEN 1 ELSE 0]
    /\ inflight = << >>
    /\ submissions = << >>
    /\ last = Op("mount", "-")
    /\ settings = NoSettings
    /\ lookup = NoLookup
    /\ HeaderUnused
    /\ ManagerUnused

----------------------------------------------------------------------------
(* Actions *)

\* The parent re-renders the modal with another formId: the effect on
\* [formId] calls loadForm again.  Nothing else of the state is touched.
FormIdChange(fid) ==
    /\ mounted
    /\ fid # formId
    /\ TotalLoads < MaxLoads
    /\ formId' = fid
    /\ pendingLoads' = [pendingLoads EXCEPT ![fid] = @ + 1]
    /\ last' = Op("formId", "-")
    /\ UNCHANGED pageVars
    /\ UNCHANGED <<mounted, programId, courseId, form, fields, formData, errors,
                   isSubmitting, isSuccess, inflight, submissions>>

\* Promise.all of a loadForm call for fid resolves.  formOk and fieldsOk say
\* whether the two results carry data (no row, or an error, gives data = null).
\* A call made by an instance that has been unmounted updates nothing.
LoadResolve(fid, formOk, fieldsOk) ==
    /\ pendingLoads[fid] > 0
    /\ pendingLoads' = [pendingLoads EXCEPT ![fid] = @ - 1]
    /\ form' = IF mounted /\ formOk THEN StoredForm(fid) ELSE form
    /\ fields' = IF mounted /\ fieldsOk THEN StoredFields(fid) ELSE fields
    /\ last' = Op("loaded", "-")
    /\ UNCHANGED pageVars
    /\ UNCHANGED <<mounted, formId, programId, courseId, formData, errors,
                   isSubmitting, isSuccess, inflight, submissions>>
\* handleFieldChange clearing the whole error set: setErrors({})
handleFieldChange_ClearsAll(fieldId, value) ==
    /\ formData' = [formData EXCEPT ![fieldId] = value]
    /\ errors' = IF HasError(errors, fieldId) THEN NoErrors ELSE errors
    /\ last' = Op("change", fieldId)
    /\ UNCHANGED pageVars
    /\ UNCHANGED <<mounted, formId, programId, courseId, form, fields,
                   isSubmitting, isSuccess, pendingLoads, inflight, submissions>>

\* handleFieldChange(fieldId, value)
handleFieldChange(fieldId, value) ==
    /\ formData' = [formData EXCEPT ![fieldId] = value]
    /\ errors' = IF HasError(errors, fieldId) THEN Put(errors, fieldId, "") ELSE errors
    /\ last' = Op("change", fieldId)
    /\ UNCHANGED pageVars
    /\ UNCHANGED <<mounted, formId, programId, courseId, form, fields,
                   isSubmitting, isSuccess, pendingLoads, inflight, submissions>>

\* onChange of a textarea, select or input rendered for a field of the form
ChangeValue(i, s) ==
    /\ View = "form"
    /\ i \in 1..Len(fields)
    /\ fields[i].field_type # "checkbox"
    /\ s \in StrValues(fields[i].field_type)
    /\ handleFieldChange(fields[i].id, Str(s))

\* array.includes(option)
Includes(a, option) == \E k \in 1..Len(a) : a[k] = option

\* Without with the test inverted: array.filter(v => v === option)
Without_KeepsOption(a, option) == SelectSeq(a, LAMBDA v : v = option)

\* array.filter(v => v !== option)
Without(a, option) == SelectSeq(a, LAMBDA v : v # option)

\* formData[field.id] || [] of a checkbox group
CurrentOptions(x) == IF Truthy(x) THEN x.v ELSE << >>

\* The array handed to handleFieldChange by a click on the checkbox of
\* option, x being the draft value of the field: the box is shown checked
\* iff the option is included, and the click inverts it
Toggled(x, option) ==
    LET current == CurrentOptions(x)
    IN IF ~Includes(current, option)
       THEN Append(current, option)
       ELSE Without(current, option)

\* onChange of the checkbox of option number k of a checkbox field
ToggleOption(i, k) ==
    /\ View = "form"
    /\ i \in 1..Len(fields)
    /\ fields[i].field_type = "checkbox"
    /\ k \in 1..Len(fields[i].options)
    /\ handleFieldChange(fields[i].id, Arr(Toggled(formData[fields[i].id], fields[i].options[k])))

\* handleSubmit without the return after a failed validateForm
handleSubmit_NoReturn ==
    /\ SubmitEnabled
    /\ Len(inflight) < MaxInflight
    /\ LET newErrors == validateForm(fields, formData)
       IN /\ errors' = newErrors
          /\ isSubmitting' = TRUE
          /\ inflight' = Append(inflight,
                           InsertRow(formId, programId, courseId, fields, formData))
          /\ last' = Op(IF DOMAIN newErrors # {} THEN "rejected" ELSE "submitted", "-")
    /\ UNCHANGED pageVars
    /\ UNCHANGED <<mounted, formId, programId, courseId, form, fields, formData,
                   isSuccess, pendingLoads, submissions>>

\* handleSubmit up to its await
handleSubmit ==
    /\ SubmitEnabled
    /\ Len(inflight) < MaxInflight
    /\ LET newErrors == validateForm(fields, formData)
       IN /\ errors' = newErrors
          /\ IF DOMAIN newErrors # {}
             THEN /\ last' = Op("rejected", "-")
                  /\ UNCHANGED <<isSubmitting, inflight>>
             ELSE /\ isSubmitting' = TRUE
                  /\ inflight' = Append(inflight,
                                   InsertRow(formId, programId, courseId, fields, formData))
                  /\ last' = Op("submitted", "-")
    /\ UNCHANGED pageVars
    /\ UNCHANGED <<mounted, formId, programId, courseId, form, fields, formData,
                   isSuccess, pendingLoads, submissions>>

RemoveAt(s, k) == [j \in 1..(Len(s) - 1) |-> IF j < k THEN s[j] ELSE s[j + 1]]
\* InsertResolve with setIsSubmitting(false) moved under if (!error)
InsertResolve_BusyOnError(k, ok) ==
    /\ k \in 1..Len(inflight)
    /\ inflight' = RemoveAt(inflight, k)
    /\ submissions' = IF ok THEN Append(submissions, inflight[k]) ELSE submissions
    /\ isSubmitting' = IF mounted /\ ok THEN FALSE ELSE isSubmitting
    /\ isSuccess' = IF mounted /\ ok THEN TRUE ELSE isSuccess
    /\ last' = Op(IF ok THEN "inserted" ELSE "insertFailed", "-")
    /\ UNCHANGED pageVars
    /\ UNCHANGED <<mounted, formId, programId, courseId, form, fields, formData,
                   errors, pendingLoads>>

\* InsertResolve without the test of error before setIsSuccess(true)
InsertResolve_AlwaysSuccess(k, ok) ==
    /\ k \in 1..Len(inflight)
    /\ inflight' = RemoveAt(inflight, k)
    /\ submissions' = IF ok THEN Append(submissions, inflight[k]) ELSE submissions
    /\ isSubmitting' = IF mounted THEN FALSE ELSE isSubmitting
    /\ isSuccess' = IF mounted THEN TRUE ELSE isSuccess
    /\ last' = Op(IF ok THEN "inserted" ELSE "insertFailed", "-")
    /\ UNCHANGED pageVars
    /\ UNCHANGED <<mounted, formId, programId, courseId, form, fields, formData,
                   errors, pendingLoads>>

\* InsertResolve persisting the draft as it is when the response arrives
InsertResolve_PersistsCurrentDraft(k, ok) ==
    /\ k \in 1..Len(inflight)
    /\ inflight' = RemoveAt(inflight, k)
    /\ submissions' = IF ok
                      THEN Append(submissions,
                                  InsertRow(formId, programId, courseId, fields, formData))
                      ELSE submissions
    /\ isSubmitting' = IF mounted THEN FALSE ELSE isSubmitting
    /\ isSuccess' = IF mounted /\ ok THEN TRUE ELSE isSuccess
    /\ last' = Op(IF ok THEN "inserted" ELSE "insertFailed", "-")
    /\ UNCHANGED pageVars
    /\ UNCHANGED <<mounted, formId, programId, courseId, form, fields, formData,
                   errors, pendingLoads>>

\* The insert number k resolves: without error the row is in the table; the
\* rest of handleSubmit then runs (on a mounted instance)
InsertResolve(k, ok) ==
    /\ k \in 1..Len(inflight)
    /\ inflight' = RemoveAt(inflight, k)
    /\ submissions' = IF ok THEN Append(submissions, inflight[k]) ELSE submissions
    /\ isSubmitting' = IF mounted THEN FALSE ELSE isSubmitting
    /\ isSuccess' = IF mounted /\ ok THEN TRUE ELSE isSuccess
    /\ last' = Op(IF ok THEN "inserted" ELSE "insertFailed", "-")
    /\ UNCHANGED pageVars
    /\ UNCHANGED <<mounted, formId, programId, courseId, form, fields, formData,
                   errors, pendingLoads>>

\* What the parent does in onClose: it stops rendering the modal, and the
\* state of the instance is gone
Unmount ==
    /\ mounted' = FALSE
    /\ form' = NullForm
    /\ fields' = << >>
    /\ formData' = EmptyDraft
    /\ errors' = NoErrors
    /\ isSubmitting' = FALSE
    /\ isSuccess' = FALSE
\* Close submitting the draft on the way out
Close_SavesDraft ==
    /\ CloseRendered
    /\ Unmount
    /\ last' = Op("close", "-")
    /\ inflight' = Append(inflight, InsertRow(formId, programId, courseId, fields, formData))
    /\ UNCHANGED pageVars
    /\ UNCHANGED <<formId, programId, courseId, pendingLoads, submissions>>

\* onClick={onClose} of the X, Cancel and Close buttons
Close ==
    /\ CloseRendered
    /\ Unmount
    /\ last' = Op("close", "-")
    /\ UNCHANGED pageVars
    /\ UNCHANGED <<formId, programId, courseId, pendingLoads, inflight, submissions>>

Next ==
    \/ \E fid \in FormIds : FormIdChange(fid)
    \/ \E fid \in FormIds, formOk \in BOOLEAN, fieldsOk \in BOOLEAN :
          LoadResolve(fid, formOk, fieldsOk)
    \/ \E i \in 1..2, s \in {<<>>, <<"a">>, ValidEmail} : ChangeValue(i, s)
    \/ \E i \in 1..2, k \in 1..2 : ToggleOption(i, k)
    \/ handleSubmit
    \/ \E k \in 1..MaxInflight, ok \in BOOLEAN : InsertResolve(k, ok)
    \/ Close

Spec == Init /\ [][Next]_vars

----------------------------------------------------------------------------
(* SpecV: validateForm and the submission transform on their own.  The      *)
(* store holds a form of one field, of any type and either required flag;   *)
(* the form is loaded and the user has typed any string up to the bounds    *)
(* (or nothing); handleSubmit then runs and its insert resolves.            *)

InitV ==
    /\ mounted = TRUE
    /\ formId = "probe"
    /\ programId = "p1"
    /\ courseId = "undefined"
    /\ form = ProbeForm
    /\ fields \in ProbeFields
    /\ \E x \in {Undefined} \cup {Str(s) : s \in ProbeStrings(fields[1].field_type)} :
          formData = [EmptyDraft EXCEPT !["x"] = x]
    /\ errors = NoErrors
    /\ isSubmitting = FALSE
    /\ isSuccess = FALSE
    /\ pendingLoads = [f \in FormIds |-> 0]
    /\ inflight = << >>
    /\ submissions = << >>
    /\ last = Op("loaded", "-")
    /\ settings = NoSettings
    /\ lookup = NoLookup
    /\ HeaderUnused
    /\ ManagerUnused

NextV ==
    \/ handleSubmit
    \/ \E k \in 1..MaxInflight, ok \in BOOLEAN : InsertResolve(k, ok)

SpecV == InitV /\ [][NextV]_vars

----------------------------------------------------------------------------
(* SpecS: the settings lookup of HeroSection and Home.  The read of         *)
(* page_settings has resolved with up to MaxRows rows (or with no data),    *)
(* and the page renders getSetting calls.                                   *)

SettingKeys == {"heading", "subheading", "button"}
SettingValues == {"", "Stored", "Other"}
DefaultValues == {"", "Default"}

SettingRows == [key : SettingKeys, value : SettingValues]

RECURSIVE RowsUpTo(_)
RowsUpTo(n) ==
    IF n = 0 THEN {<< >>}
    ELSE LET shorter == RowsUpTo(n - 1)
         IN shorter \cup {Append(rows, r) : rows \in {x \in shorter : Len(x) = n - 1},
                                            r \in SettingRows}

\* settingsData.data.reduce((acc, {key, value}) => { acc[key] = value; return acc }, {})
RECURSIVE SettingsMap(_, _)
SettingsMap(rows, k) ==
    IF k = 0 THEN NoSettings
    ELSE Put(SettingsMap(rows, k - 1), rows[k].key, rows[k].value)

\* getSetting with the operands of || exchanged
getSetting_DefaultFirst(map, key, defaultValue) ==
    IF defaultValue # "" THEN defaultValue
    ELSE IF key \in DOMAIN map THEN map[key] ELSE ""

\* settings[key] || defaultValue
getSetting(map, key, defaultValue) ==
    IF key \in DOMAIN map /\ map[key] # "" THEN map[key] ELSE defaultValue

ModalUnused ==
    /\ mounted = FALSE
    /\ formId = "f1"
    /\ programId = "undefined"
    /\ courseId = "undefined"
    /\ form = NullForm
    /\ fields = << >>
    /\ formData = EmptyDraft
    /\ errors = NoErrors
    /\ isSubmitting = FALSE
    /\ isSuccess = FALSE
    /\ pendingLoads = [f \in FormIds |-> 0]
    /\ inflight = << >>
    /\ submissions = << >>
    /\ last = Op("-", "-")

modalVars == <<mounted, formId, programId, courseId, form, fields, formData, errors,
               isSubmitting, isSuccess, pendingLoads, inflight, submissions, last>>

InitS ==
    /\ ModalUnused
    /\ \E rows \in RowsUpTo(MaxRows) : settings = SettingsMap(rows, Len(rows))
    /\ lookup = NoLookup
    /\ HeaderUnused
    /\ ManagerUnused

\* {getSetting(key, defaultValue)} in the render of the page
RenderSetting(key, defaultValue) ==
    /\ lookup' = [key |-> key, defaultValue |-> defaultValue,
                  result |-> getSetting(settings, key, defaultValue)]
    /\ UNCHANGED settings
    /\ UNCHANGED headerVars
    /\ UNCHANGED managerVars
    /\ UNCHANGED modalVars

NextS == \E key \in SettingKeys, defaultValue \in DefaultValues : RenderSetting(key, defaultValue)

SpecS == InitS /\ [][NextS]_vars

----------------------------------------------------------------------------
(* SpecH: Header (project/src/components/Header.tsx).  Its mount effect     *)
(* reads navigation_items and programs; the user then activates the         *)
(* controls of the desktop and of the mobile menu.  A URL is the sequence   *)
(* of its pieces, '/programs/hatha' being <<"/", "programs", "/", "hatha">>, *)
(* cut so that a URL starting with '/programs' has those two pieces first.  *)

MaxPrograms == 3    \* published programs in the table programs

NoPath == << "-" >>
RootUrl == << "/" >>
AdminUrl == << "/", "admin" >>
ProgramsUrl == << "/", "programs" >>

\* A row of programs; every second one has an empty slug
Program(i) ==
    [id |-> "p" \o ToString(i), title |-> "Program " \o ToString(i),
     slug |-> IF i % 2 = 0 THEN "" ELSE "slug" \o ToString(i), is_published |-> TRUE]

\* select(...).eq('is_published', true).order('created_at', {ascending: false}):
\* the published rows among Program(1) .. Program(MaxPrograms), newest first
RECURSIVE NewestFirst(_)
NewestFirst(S) ==
    IF S = {} THEN << >>
    ELSE LET m == CHOOSE i \in S : \A j \in S : j <= i
         IN << Program(m) >> \o NewestFirst(S \ {m})
PublishedPrograms == { NewestFirst(S) : S \in SUBSET (1..MaxPrograms) }

\* Rows of navigation_items, active ones in sort_order
NavRow(id, label, url, parent) == [id |-> id, label |-> label, url |-> url, parent_id |-> parent]
NavRowsPlain ==
    << NavRow("home", "Home", RootUrl, "null"),
       NavRow("programs", "Programs", ProgramsUrl, "null"),
       NavRow("retreats", "Retreats", << "/", "programs", "/", "retreats" >>, "null"),
       NavRow("about", "About", << "/", "about" >>, "null"),
       NavRow("team", "Team", << "/", "about", "/", "team" >>, "about") >>
NavRowsNested ==
    << NavRow("home", "Home", RootUrl, "null"),
       NavRow("programs", "Programs", ProgramsUrl, "null"),
       NavRow("schedule", "Schedule", << "/", "schedule" >>, "programs"),
       NavRow("about", "About", << "/", "about" >>, "null"),
       NavRow("team", "Team", << "/", "about", "/", "team" >>, "about"),
       NavRow("contact", "Contact", << "/", "contact" >>, "about") >>
NavigationData == { NavRowsPlain, NavRowsNested }

\* data.filter(item => !item.parent_id), each with
\* children: data.filter(item => item.parent_id === parent.id)
IsParentRow(row) == row.parent_id = "null"
WithChildren(data) ==
    LET parentItems == SelectSeq(data, IsParentRow)
    IN [i \in 1..Len(parentItems) |->
          LET parent == parentItems[i]
              IsChild(row) == row.parent_id = parent.id
          IN [id |-> parent.id, label |-> parent.label, url |-> parent.url,
              parent_id |-> parent.parent_id, children |-> SelectSeq(data, IsChild)]]

\* url === '/programs' || url.startsWith('/programs')
isProgramsLink(url) == Len(url) >= 2 /\ url[1] = "/" /\ url[2] = "programs"

\* `/programs/${program.slug || program.id}`
ProgramUrl(program) ==
    << "/", "programs", "/", IF program.slug # "" THEN program.slug ELSE program.id >>

\* getProgramsChildren giving a dropdown from one program on
getProgramsChildren_FromOne ==
    IF Len(programs) >= 1
    THEN [i \in 1..Len(programs) |->
            [id |-> programs[i].id, label |-> programs[i].title,
             url |-> ProgramUrl(programs[i]), parent_id |-> "null"]]
    ELSE << >>

\* getProgramsChildren()
getProgramsChildren ==
    IF Len(programs) >= 2
    THEN [i \in 1..Len(programs) |->
            [id |-> programs[i].id, label |-> programs[i].title,
             url |-> ProgramUrl(programs[i]), parent_id |-> "null"]]
    ELSE << >>

\* The desktop menu's view of an item
programsChildren(item) == IF isProgramsLink(item.url) THEN getProgramsChildren ELSE << >>
hasDropdown(item) == Len(item.children) > 0 \/ Len(programsChildren(item)) > 0
DesktopDropdown(item) ==
    IF Len(programsChildren(item)) > 0
    THEN programsChildren(item)
    ELSE [j \in 1..Len(item.children) |->
            [id |-> item.children[j].id, label |-> item.children[j].label,
             url |-> item.children[j].url, parent_id |-> item.children[j].parent_id]]

\* The mobile menu's view of an item
MobileHasToggle(item) == Len(item.children) > 0
MobileDropdownShown(item) == isMenuOpen /\ Len(item.children) > 0 /\ openDropdown = item.id

Click(menu, control, item) == [menu |-> menu, control |-> control, item |-> item]

InitH ==
    /\ ModalUnused
    /\ settings = NoSettings
    /\ lookup = NoLookup
    /\ headerLoads = {"navigation", "programs"}
    /\ navigation = << >>
    /\ programs = << >>
    /\ isMenuOpen = FALSE
    /\ openDropdown = "null"
    /\ navigatedTo = NoPath
    /\ click = NoClick
    /\ ManagerUnused

HeaderIdle == UNCHANGED <<settings, lookup>> /\ UNCHANGED managerVars /\ UNCHANGED modalVars

\* loadNavigation resolves, with the rows or with no data
NavigationResolve(ok, data) ==
    /\ "navigation" \in headerLoads
    /\ headerLoads' = headerLoads \ {"navigation"}
    /\ navigation' = IF ok THEN WithChildren(data) ELSE navigation
    /\ UNCHANGED <<programs, isMenuOpen, openDropdown, navigatedTo, click>>
    /\ HeaderIdle

\* loadPrograms resolves, with the rows or with no data
ProgramsResolve(ok, data) ==
    /\ "programs" \in headerLoads
    /\ headerLoads' = headerLoads \ {"programs"}
    /\ programs' = IF ok THEN data ELSE programs
    /\ UNCHANGED <<navigation, isMenuOpen, openDropdown, navigatedTo, click>>
    /\ HeaderIdle

\* handleNavigate leaving openDropdown as it is
handleNavigate_KeepsDropdown(url) ==
    /\ navigatedTo' = url
    /\ isMenuOpen' = FALSE
    /\ openDropdown' = openDropdown

\* handleNavigate(url)
handleNavigate(url) ==
    /\ navigatedTo' = url
    /\ isMenuOpen' = FALSE
    /\ openDropdown' = "null"

\* handleProgramsClick(url)
handleProgramsClick(url) ==
    IF Len(programs) = 1
    THEN handleNavigate(ProgramUrl(programs[1]))
    ELSE handleNavigate(url)

\* The logo button
LogoClick ==
    /\ handleNavigate(RootUrl)
    /\ click' = Click("header", "logo", "-")
    /\ UNCHANGED <<headerLoads, navigation, programs>>
    /\ HeaderIdle

\* The button of item i in the desktop menu, with or without a dropdown
DesktopItemClick(i) ==
    /\ i \in 1..Len(navigation)
    /\ LET item == navigation[i]
       IN IF hasDropdown(item)
          THEN IF isProgramsLink(item.url) /\ Len(programsChildren(item)) = 0
               THEN handleProgramsClick(item.url)
               ELSE handleNavigate(item.url)
          ELSE IF isProgramsLink(item.url)
               THEN handleProgramsClick(item.url)
               ELSE handleNavigate(item.url)
    /\ click' = Click("desktop", "item", navigation[i].id)
    /\ UNCHANGED <<headerLoads, navigation, programs>>
    /\ HeaderIdle

\* Entry j of the dropdown of item i in the desktop menu
DesktopChildClick(i, j) ==
    /\ i \in 1..Len(navigation)
    /\ hasDropdown(navigation[i])
    /\ j \in 1..Len(DesktopDropdown(navigation[i]))
    /\ handleNavigate(DesktopDropdown(navigation[i])[j].url)
    /\ click' = Click("desktop", "child", DesktopDropdown(navigation[i])[j].id)
    /\ UNCHANGED <<headerLoads, navigation, programs>>
    /\ HeaderIdle

\* The admin button, of the desktop menu or of the opened mobile menu
AdminClick(menu) ==
    /\ menu = "mobile" => isMenuOpen
    /\ handleNavigate(AdminUrl)
    /\ click' = Click(menu, "admin", "-")
    /\ UNCHANGED <<headerLoads, navigation, programs>>
    /\ HeaderIdle

\* The menu button: setIsMenuOpen(!isMenuOpen)
MenuButtonClick ==
    /\ isMenuOpen' = ~isMenuOpen
    /\ click' = Click("mobile", "menuButton", "-")
    /\ UNCHANGED <<headerLoads, navigation, programs, openDropdown, navigatedTo>>
    /\ HeaderIdle

\* The button of item i in the mobile menu
MobileItemClick(i) ==
    /\ isMenuOpen
    /\ i \in 1..Len(navigation)
    /\ handleNavigate(navigation[i].url)
    /\ click' = Click("mobile", "item", navigation[i].id)
    /\ UNCHANGED <<headerLoads, navigation, programs>>
    /\ HeaderIdle

\* The chevron of item i in the mobile menu:
\* setOpenDropdown(openDropdown === item.id ? null : item.id)
MobileToggleDropdown(i) ==
    /\ isMenuOpen
    /\ i \in 1..Len(navigation)
    /\ MobileHasToggle(navigation[i])
    /\ openDropdown' = IF openDropdown = navigation[i].id THEN "null" ELSE navigation[i].id
    /\ click' = Click("mobile", "toggle", navigation[i].id)
    /\ UNCHANGED <<headerLoads, navigation, programs, isMenuOpen, navigatedTo>>
    /\ HeaderIdle

\* Child j of item i in the opened dropdown of the mobile menu
MobileChildClick(i, j) ==
    /\ i \in 1..Len(navigation)
    /\ MobileDropdownShown(navigation[i])
    /\ j \in 1..Len(navigation[i].children)
    /\ handleNavigate(navigation[i].children[j].url)
    /\ click' = Click("mobile", "child", navigation[i].children[j].id)
    /\ UNCHANGED <<headerLoads, navigation, programs>>
    /\ HeaderIdle

NextH ==
    \/ \E ok \in BOOLEAN, data \in NavigationData : NavigationResolve(ok, data)
    \/ \E ok \in BOOLEAN, data \in PublishedPrograms : ProgramsResolve(ok, data)
    \/ LogoClick
    \/ \E i \in 1..Len(navigation) : DesktopItemClick(i)
    \/ \E i \in 1..Len(navigation) :
          \E j \in 1..Len(DesktopDropdown(navigation[i])) : DesktopChildClick(i, j)
    \/ \E menu \in {"desktop", "mobile"} : AdminClick(menu)
    \/ MenuButtonClick
    \/ \E i \in 1..Len(navigation) : MobileItemClick(i)
    \/ \E i \in 1..Len(navigation) : MobileToggleDropdown(i)
    \/ \E i \in 1..Len(navigation) :
          \E j \in 1..Len(navigation[i].children) : MobileChildClick(i, j)

SpecH == InitH /\ [][NextH]_vars

----------------------------------------------------------------------------
(* SpecM: SettingsManager (project/src/pages/admin/managers/              *)
(* SettingsManager.tsx).  The row of site_settings is read on mount; the   *)
(* user presses Save Changes, the update resolves, and the timer started   *)
(* by handleSave clears the message 3000 ms later.  The clock counts       *)
(* seconds, and a timer runs before the clock passes the second it is due. *)

MaxSaves == 3       \* handleSave calls followed
MaxTime == 7        \* seconds followed
MaxUpdates == 2     \* update calls outstanding at once (the code allows one)

TimerDelay == 3     \* setTimeout(..., 3000)
SavedMessage == "Settings saved successfully!"
ErrorMessage == "Error saving settings"

InitM ==
    /\ ModalUnused
    /\ settings = NoSettings
    /\ lookup = NoLookup
    /\ HeaderUnused
    /\ siteSettings = "pending"
    /\ saving = FALSE
    /\ message = ""
    /\ messageBy = 0
    /\ updates = 0
    /\ saveCount = 0
    /\ timers = {}
    /\ now = 0

ManagerIdle == UNCHANGED <<settings, lookup>> /\ UNCHANGED headerVars /\ UNCHANGED modalVars

\* loadSettings resolves: if (data) setSettings(data)
SettingsLoaded(ok) ==
    /\ siteSettings = "pending"
    /\ siteSettings' = IF ok THEN "loaded" ELSE "null"
    /\ UNCHANGED <<saving, message, messageBy, updates, saveCount, timers, now>>
    /\ ManagerIdle

\* The save button is rendered once the settings are there, disabled={saving}
SaveEnabled == siteSettings = "loaded" /\ ~saving

\* handleSave up to its await: setSaving(true) and the update call
handleSave ==
    /\ SaveEnabled
    /\ updates < MaxUpdates
    /\ saveCount + updates < MaxSaves
    /\ saving' = TRUE
    /\ updates' = updates + 1
    /\ UNCHANGED <<siteSettings, message, messageBy, saveCount, timers, now>>
    /\ ManagerIdle

\* The update resolves and handleSave runs to its end: setSaving(false),
\* setMessage(...), setTimeout(() => setMessage(''), 3000)
UpdateResolve(ok) ==
    /\ updates > 0
    /\ updates' = updates - 1
    /\ saving' = FALSE
    /\ message' = IF ok THEN SavedMessage ELSE ErrorMessage
    /\ saveCount' = saveCount + 1
    /\ messageBy' = saveCount + 1
    /\ timers' = timers \cup {[save |-> saveCount + 1, due |-> now + TimerDelay]}
    /\ UNCHANGED <<siteSettings, now>>
    /\ ManagerIdle

\* The timers that are due, and the one that runs first (timers of the same
\* delay run in the order they were started)
Due == {t \in timers : t.due <= now}
FirstDue(t) == t \in Due /\ \A u \in Due : t.save <= u.save

\* The callback of a timer runs: setMessage('')
TimerFires(t) ==
    /\ FirstDue(t)
    /\ timers' = timers \ {t}
    /\ message' = ""
    /\ messageBy' = 0
    /\ UNCHANGED <<siteSettings, saving, updates, saveCount, now>>
    /\ ManagerIdle

\* A second passes
Tick ==
    /\ Due = {}
    /\ now < MaxTime
    /\ now' = now + 1
    /\ UNCHANGED <<siteSettings, saving, message, messageBy, updates, saveCount, timers>>
    /\ ManagerIdle

NextM ==
    \/ \E ok \in BOOLEAN : SettingsLoaded(ok)
    \/ handleSave
    \/ \E ok \in BOOLEAN : UpdateResolve(ok)
    \/ \E t \in timers : TimerFires(t)
    \/ Tick

SpecM == InitM /\ [][NextM]_vars

----------------------------------------------------------------------------
(* Properties of validation and submission *)

\* The step just taken was a submit attempt (handleSubmit ran)
SubmitAttempted == last.op \in {"rejected", "submitted"}

\* The row of the insert issued by the submit attempt just taken
IssuedRow == inflight[Len(inflight)]

\* A field without an entered value: never touched, the empty string, or a
\* multi-select with no option selected
NoValueEntered(x) == x = Undefined \/ x = Str(<< >>) \/ x = Arr(<< >>)

\* C1: after a submit attempt, every required field whose draft value is
\* absent or empty (never entered, '', or a multi-select with nothing
\* selected) has the error '<label> is required', and the attempt issued no
\* insert.
C1_RequiredEmptyIsRejected ==
    SubmitAttempted =>
        \A i \in 1..Len(fields) :
            (fields[i].is_required /\ NoValueEntered(formData[fields[i].id])) =>
                /\ fields[i].id \in DOMAIN errors
                /\ errors[fields[i].id] = fields[i].label \o " is required"
                /\ last.op = "rejected"

\* A rule of validateForm is broken by the draft value x of the field
RuleBroken(field, x) ==
    \/ field.is_required /\ ~Truthy(x)
    \/ field.field_type = "email" /\ Truthy(x) /\ ~Test(emailRegex, x.v)
    \/ field.field_type = "phone" /\ Truthy(x) /\ ~Test(phoneRegex, x.v)

\* C2: a submit attempt issues an insert only if no field of the form breaks
\* a rule and the error set is empty; when any field has an error the attempt
\* issues no insert, leaves the busy flag clear and the form view shown, with
\* the errors recorded per field.
C2_AllOrNothing ==
    [][ (last'.op \in {"rejected", "submitted"}) =>
          /\ (Len(inflight') > Len(inflight)) =>
                /\ DOMAIN errors' = {}
                /\ \A i \in 1..Len(fields) : ~RuleBroken(fields[i], formData[fields[i].id])
          /\ (DOMAIN errors' # {}) =>
                /\ inflight' = inflight
                /\ submissions' = submissions
                /\ ~isSubmitting'
                /\ View' = "form"
                /\ formData' = formData
                /\ DOMAIN errors' \subseteq FieldIdsOf(fields)
          /\ (Len(inflight') > Len(inflight)) \/ (DOMAIN errors' # {})
      ]_vars

C2_Witness ==
    /\ last.op = "rejected"
    /\ HasError(errors, "e")
    /\ ~HasError(errors, "n")
    /\ View = "form"
    /\ inflight = << >>

\* C3: the responses of an issued insert have the labels of the form's
\* fields as keys, hold the draft value of each field, and hold '' for every
\* field without an entered value.
C3_ResponsesKeyedByLabel ==
    last.op = "submitted" =>
        /\ DOMAIN IssuedRow.responses = LabelsOf(fields)
        /\ \A i \in 1..Len(fields) :
              LET x == formData[fields[i].id]
              IN IssuedRow.responses[fields[i].label] =
                    IF NoValueEntered(x) THEN EmptyStr ELSE x

\* The shape local@domain.tld: one '@' with a non-empty local part before
\* it, and after it a '.' with at least one character on each side; no
\* whitespace and no other '@' anywhere.
HasEmailShape(s) ==
    \E a \in 2..Len(s) :
        /\ s[a] = "@"
        /\ \A k \in 1..Len(s) : s[k] \notin Whitespace /\ (k # a => s[k] # "@")
        /\ \E d \in (a + 2)..(Len(s) - 1) : s[d] = "."

\* C4: after a submit attempt, an email field with a non-empty value has the
\* error 'Please enter a valid email address' exactly when the value does
\* not have the shape local@domain.tld, a value of that shape leaves the
\* field without error, and an empty optional email field has no error.
C4_EmailRule ==
    (SubmitAttempted /\ Len(fields) = 1 /\ fields[1].field_type = "email") =>
        LET x == formData[fields[1].id]
            id == fields[1].id
        IN /\ (x.t = "str" /\ x.v # << >>) =>
                 /\ (id \in DOMAIN errors /\ errors[id] = "Please enter a valid email address")
                        <=> ~HasEmailShape(x.v)
                 /\ HasEmailShape(x.v) => id \notin DOMAIN errors
           /\ (NoValueEntered(x) /\ ~fields[1].is_required) => id \notin DOMAIN errors

C4_Witness ==
    /\ SubmitAttempted
    /\ fields[1].field_type = "email"
    /\ formData["x"] = Str(<<"a", "@", ".", "a">>)
    /\ errors = ("x" :> "Please enter a valid email address")

\* The characters a phone number may be made of
PhoneChars == Digits \cup Whitespace \cup {"-", "+", "(", ")"}

\* C5: after a submit attempt, a phone field with a non-empty value has the
\* error 'Please enter a valid phone number' exactly when some character of
\* the value is not a digit, whitespace, '-', '+', '(' or ')'; an empty
\* optional phone field has no error.
C5_PhoneRule ==
    (SubmitAttempted /\ Len(fields) = 1 /\ fields[1].field_type = "phone") =>
        LET x == formData[fields[1].id]
            id == fields[1].id
            foreign == \E k \in 1..Len(x.v) : x.v[k] \notin PhoneChars
        IN /\ (x.t = "str" /\ x.v # << >>) =>
                 /\ (id \in DOMAIN errors /\ errors[id] = "Please enter a valid phone number")
                        <=> foreign
                 /\ ~foreign => id \notin DOMAIN errors
           /\ (NoValueEntered(x) /\ ~fields[1].is_required) => id \notin DOMAIN errors

C5_Witness ==
    /\ SubmitAttempted
    /\ fields[1].field_type = "phone"
    /\ formData["x"] = Str(<<"+", "1", "a">>)
    /\ errors = ("x" :> "Please enter a valid phone number")

\* The error shown for a field: its message, or "" when it has none
ErrorOf(errs, id) == IF id \in DOMAIN errs THEN errs[id] ELSE ""

\* C6: a handleFieldChange on a field leaves that field without an error,
\* leaves the error of every other field as it was, and changes the draft
\* value of no other field.
C6_ChangeClearsOnlyOwnError ==
    [][ (last'.op = "change") =>
          /\ ~HasError(errors', last'.f)
          /\ \A g \in AllFieldIds \ {last'.f} :
                /\ ErrorOf(errors', g) = ErrorOf(errors, g)
                /\ (g \in DOMAIN errors') <=> (g \in DOMAIN errors)
                /\ formData'[g] = formData[g]
      ]_vars

C6_Witness ==
    /\ last = Op("change", "e")
    /\ "e" \in DOMAIN errors
    /\ ~HasError(errors, "e")
    /\ HasError(errors, "n")

----------------------------------------------------------------------------
(* Properties of the lifecycle *)

\* The lifecycle state of the modal
Phase ==
    CASE View = "unmounted" -> "closed"
      [] View = "null"      -> "loading"
      [] View = "success"   -> "success"
      [] OTHER              -> IF isSubmitting THEN "submitting" ELSE "ready"

\* C7 as stated: close issues no insert and discards the draft, and nothing
\* is persisted once the modal is closed.
C7_NothingPersistedAfterClose ==
    [][ /\ (last'.op = "close") =>
              /\ inflight' = inflight
              /\ submissions' = submissions
              /\ formData' = EmptyDraft
        /\ ~mounted => submissions' = submissions
      ]_vars

\* C7, amended: close issues no insert and discards the draft, and no insert
\* is issued once the modal is closed; a row persisted after the close is
\* the row of an insert that was in flight when the modal was closed.
C7_CloseIssuesNoInsert ==
    [][ /\ (last'.op = "close") =>
              /\ ~mounted'
              /\ inflight' = inflight
              /\ submissions' = submissions
              /\ formData' = EmptyDraft
        /\ ~mounted =>
              /\ ~mounted'
              /\ formData' = EmptyDraft
              /\ Len(inflight') <= Len(inflight)
              /\ Range(inflight') \subseteq Range(inflight)
              /\ Range(submissions') \subseteq Range(submissions) \cup Range(inflight)
      ]_vars

C7_Witness ==
    /\ ~mounted
    /\ last.op = "inserted"
    /\ formData = EmptyDraft
    /\ inflight = << >>
    /\ Len(submissions) = 1

\* C8: whenever the modal is mounted, a close control is rendered.
C8_CloseAlwaysAvailable ==
    mounted => CloseRendered

\* The transitions of the state machine of the spec
SpecTransitions ==
    { <<"loading", "ready">>, <<"ready", "submitting">>, <<"submitting", "success">> }

\* What C9 says of a step, given the transitions allowed between the states
\* of the mounted modal
LifecycleStep(allowed) ==
    /\ (mounted' /\ Phase' # Phase) => <<Phase, Phase'>> \in allowed
    /\ (Phase' = "submitting" /\ Phase # "submitting") =>
          /\ last'.op = "submitted"
          /\ DOMAIN errors' = {}
          /\ Len(inflight') = Len(inflight) + 1
    /\ (Phase' = "success" /\ Phase # "success") =>
          /\ Phase = "submitting"
          /\ last'.op = "inserted"
    /\ (Phase = "success") =>
          /\ Phase' \in {"success", "closed"}
          /\ Len(inflight') <= Len(inflight)

\* C9 as stated: the only transitions are loading -> ready, ready ->
\* submitting (a submit attempt without errors) and submitting -> success
\* (the insert returned without error); success is never left for the form
\* view, and issues no insert.
C9_OnlySpecTransitions ==
    [][LifecycleStep(SpecTransitions)]_vars

\* C9, amended: as stated, with the transition submitting -> ready taken
\* when the insert returns an error.
C9_Lifecycle ==
    [][ /\ LifecycleStep(SpecTransitions \cup { <<"submitting", "ready">> })
        /\ (Phase = "submitting" /\ Phase' = "ready") => last'.op = "insertFailed"
      ]_vars

C9_Witness ==
    /\ Phase = "success"
    /\ last.op = "inserted"
    /\ Len(submissions) = 1

\* C10: at most one insert is in flight, the submit control is disabled and
\* the busy flag of the mounted modal is set exactly while one is, and a
\* modal that reached success has persisted exactly one row.
C10_OneInsertInFlight ==
    /\ Len(inflight) <= 1
    /\ mounted => (isSubmitting <=> inflight # << >>)
    /\ SubmitEnabled => inflight = << >>
    /\ Len(submissions) <= 1
    /\ isSuccess => Len(submissions) = 1

C10_Witness ==
    /\ isSubmitting
    /\ Len(inflight) = 1
    /\ last.op = "change"

----------------------------------------------------------------------------
(* Properties of failure and recovery *)

\* C11: when the insert returns an error the mounted modal does not enter
\* success: it is back in ready, with the busy flag clear, an empty error
\* set, the draft as it was and nothing persisted, and the submit control is
\* enabled with no insert in flight, so that a later submit attempt issues a
\* new insert.
C11_InsertErrorReturnsToReady ==
    [][ (last'.op = "insertFailed" /\ mounted) =>
          /\ Phase = "submitting"
          /\ Phase' = "ready"
          /\ ~isSuccess'
          /\ ~isSubmitting'
          /\ DOMAIN errors' = {}
          /\ formData' = formData
          /\ submissions' = submissions
          /\ SubmitEnabled'
          /\ inflight' = << >>
      ]_vars

\* A second insert is in flight after the first one failed and the user
\* submitted again
C11_Witness ==
    /\ last.op = "insertFailed"
    /\ Phase = "ready"
    /\ formData["n"] = Str(<<"a">>)
    /\ SubmitEnabled
    /\ submissions = << >>

\* C12: when the insert returns without error the mounted modal shows the
\* success panel, with the success_message of the form definition stored
\* for the current form identifier and with a close control, and the form
\* view is not rendered.
C12_SuccessPanelOfCurrentForm ==
    [][ (last'.op = "inserted" /\ mounted) =>
          /\ View' = "success"
          /\ CloseRendered'
          /\ form'.success_message = StoredForm(formId').success_message
      ]_vars

\* C13: no state is a dead end.  Once every remote call has resolved, the
\* mounted modal has left loading, it is in ready or in success, a close
\* control is rendered, and in ready the submit control is enabled.
C13_NoDeadEnd ==
    (mounted /\ TotalLoads = 0 /\ inflight = << >>) =>
        /\ Phase \in {"ready", "success"}
        /\ CloseRendered
        /\ (Phase = "ready" => SubmitEnabled)

----------------------------------------------------------------------------
(* Properties of loading and of the draft *)

\* C14: whenever the form view is shown no load for the current form
\* identifier is outstanding, and the field list is the one stored for the
\* identifier of the shown form definition (or is still empty, when no read
\* has returned a field list).
C14_FormBodyAfterBothReads ==
    (View = "form") =>
        /\ pendingLoads[formId] = 0
        /\ fields \in {StoredFields(form.id), << >>}

\* No field of the draft d has an entered value
DraftEmpty(d) == \A f \in AllFieldIds : NoValueEntered(d[f])

\* C15: the draft is empty when a load has just set a form definition, it
\* changes only by a field edit (or is dropped by close), and an insert is
\* issued only by a submit attempt that passed validation.
C15_DraftEmptyOnLoad ==
    [][ /\ (last'.op = "loaded" /\ form' # form) => DraftEmpty(formData')
        /\ (formData' # formData) => last'.op \in {"change", "close"}
        /\ (Len(inflight') > Len(inflight)) =>
              /\ last'.op = "submitted"
              /\ DOMAIN errors' = {}
      ]_vars

\* A validation rule of the spec is broken by the draft value x of the field
SpecRuleBroken(field, x) ==
    \/ field.is_required /\ NoValueEntered(x)
    \/ /\ field.field_type = "email"
       /\ ~NoValueEntered(x)
       /\ ~HasEmailShape(x.v)
    \/ /\ field.field_type = "phone"
       /\ ~NoValueEntered(x)
       /\ \E k \in 1..Len(x.v) : x.v[k] \notin PhoneChars

\* C16: after a submit attempt the error set has an entry for a field of
\* the form exactly when the field breaks a validation rule against the
\* draft, and has no other key.
C16_ErrorsRecomputedWholesale ==
    SubmitAttempted =>
        /\ DOMAIN errors \subseteq FieldIdsOf(fields)
        /\ \A i \in 1..Len(fields) :
              (fields[i].id \in DOMAIN errors)
                 <=> SpecRuleBroken(fields[i], formData[fields[i].id])

----------------------------------------------------------------------------
(* Properties of the checkbox group and of the row *)

\* The sequences of clicks on the options of a checkbox field, up to n clicks
RECURSIVE ClicksUpTo(_, _)
ClicksUpTo(options, n) ==
    IF n = 0 THEN {<< >>}
    ELSE LET shorter == ClicksUpTo(options, n - 1)
         IN shorter \cup {Append(c, o) : c \in {x \in shorter : Len(x) = n - 1},
                                         o \in Range(options)}

\* The draft value of a checkbox field after the first k clicks of a
\* sequence, starting from a field never touched
RECURSIVE AfterClicks(_, _)
AfterClicks(clicks, k) ==
    IF k = 0 THEN Undefined
    ELSE Arr(Toggled(AfterClicks(clicks, k - 1), clicks[k]))

\* The options left checked by a sequence of clicks: those clicked an odd
\* number of times
CheckedBy(clicks) ==
    {o \in Range(clicks) : Cardinality({k \in 1..Len(clicks) : clicks[k] = o}) % 2 = 1}

\* Two sequences of clicks are the same clicks in another order
SameClicks(c, d) ==
    /\ Len(c) = Len(d)
    /\ \A o \in Range(c) \cup Range(d) :
          Cardinality({k \in 1..Len(c) : c[k] = o}) = Cardinality({k \in 1..Len(d) : d[k] = o})

NoDuplicate(a) == \A j, k \in 1..Len(a) : a[j] = a[k] => j = k

\* The value persisted for the draft value x, and the options it holds
Persisted(x) == OrElse(x, EmptyStr)
OptionsIn(x) == IF x.t = "arr" THEN Range(x.v) ELSE {}

\* The checkbox fields of the store
StoredCheckboxFields ==
    {f \in UNION {Range(StoredFields(fid)) : fid \in FormIds} : f.field_type = "checkbox"}

\* Every sequence of up to MaxToggles clicks on a checkbox field, with the
\* draft value it leaves
ClickOutcomes ==
    UNION { { [id |-> f.id, clicks |-> c, value |-> AfterClicks(c, Len(c))] :
                c \in ClicksUpTo(f.options, MaxToggles) } :
            f \in StoredCheckboxFields }

\* The pairs of draft values of a field left by the same clicks made in two
\* orders
OrderVariants ==
    { [id |-> p[1].id, one |-> p[1].value, other |-> p[2].value] :
        p \in { pair \in ClickOutcomes \X ClickOutcomes :
                  pair[1].id = pair[2].id /\ SameClicks(pair[1].clicks, pair[2].clicks) } }

\* What C17 says of the draft value x of a checkbox field: no duplicate,
\* only options of the field, and exactly the options left checked by the
\* clicks that led to it
IsSetOfChecked(field, x) ==
    /\ NoDuplicate(x.v)
    /\ Range(x.v) \subseteq Range(field.options)
    /\ \A r \in ClickOutcomes :
          (r.id = field.id /\ r.value = x) => Range(x.v) = CheckedBy(r.clicks)

\* C17 as stated: the draft value of a checkbox field holds no duplicate,
\* only options of the field and exactly the checked ones, and the same
\* clicks made in another order persist the same value.
C17_PersistedValueIgnoresOrder ==
    \A i \in 1..Len(fields) :
        (mounted /\ fields[i].field_type = "checkbox") =>
            LET x == formData[fields[i].id]
            IN /\ IsSetOfChecked(fields[i], x)
               /\ \A v \in OrderVariants :
                     (v.id = fields[i].id /\ v.one = x) => Persisted(v.other) = Persisted(x)

\* C17, amended: as stated, but the same clicks made in another order
\* persist the same options, in the order in which they were checked: the
\* persisted value is the array of the draft, not a set.
C17_PersistedOptionsIgnoreOrder ==
    \A i \in 1..Len(fields) :
        (mounted /\ fields[i].field_type = "checkbox") =>
            LET x == formData[fields[i].id]
            IN /\ IsSetOfChecked(fields[i], x)
               /\ \A v \in OrderVariants :
                     (v.id = fields[i].id /\ v.one = x) =>
                        OptionsIn(Persisted(v.other)) = OptionsIn(Persisted(x))
               /\ (last.op = "submitted") =>
                     IssuedRow.responses[fields[i].label] = Persisted(x)

C17_Witness ==
    /\ last.op = "submitted"
    /\ formData["d"] = Arr(<<"Tue", "Mon">>)
    /\ IssuedRow.responses["Days"] = Arr(<<"Tue", "Mon">>)

\* An identifier was given for an optional prop
Given(x) == x # "undefined" /\ x # ""

\* C19: the row of every insert issued carries the current formId as
\* form_id, programId and courseId when given and null otherwise, and the
\* responses keyed by the labels of the fields.
C19_RowCarriesIdentifiers ==
    (last.op = "submitted") =>
        /\ IssuedRow.form_id = formId
        /\ IssuedRow.program_id = IF Given(programId) THEN programId ELSE "null"
        /\ IssuedRow.course_id = IF Given(courseId) THEN courseId ELSE "null"
        /\ DOMAIN IssuedRow.responses = LabelsOf(fields)

C19_Witness ==
    /\ last.op = "submitted"
    /\ IssuedRow.form_id = "f1"
    /\ IssuedRow.program_id = "p1"
    /\ IssuedRow.course_id = "null"
    /\ DOMAIN IssuedRow.responses = {"Name", "Email"}

\* C20: a submit attempt made with a checkbox group that was checked and
\* unchecked again (its draft value is the empty array) has the result it
\* would have had with the group never touched: the same error set, the
\* same decision, the same row.
C20_CheckUncheckRoundTrip ==
    \A i \in 1..Len(fields) :
        (SubmitAttempted /\ formData[fields[i].id] = Arr(<< >>)) =>
            LET untouched == [formData EXCEPT ![fields[i].id] = Undefined]
                expected == validateForm(fields, untouched)
            IN /\ errors = expected
               /\ (last.op = "submitted") <=> (DOMAIN expected = {})
               /\ (last.op = "submitted") =>
                     IssuedRow = InsertRow(formId, programId, courseId, fields, untouched)

----------------------------------------------------------------------------
(* Properties of the settings lookup *)

\* C18 as stated: getSetting returns the stored value whenever the mapping
\* has an entry for the key, and the default only when it has none.
C18_StoredValueWheneverPresent ==
    (lookup # NoLookup) =>
        lookup.result = IF lookup.key \in DOMAIN settings
                        THEN settings[lookup.key]
                        ELSE lookup.defaultValue

\* C18, amended: getSetting returns the stored value whenever the mapping
\* has a non-empty entry for the key, and the default when it has no entry
\* or an empty one.
C18_StoredValueUnlessEmpty ==
    (lookup # NoLookup) =>
        /\ (lookup.key \in DOMAIN settings /\ settings[lookup.key] # "") =>
              lookup.result = settings[lookup.key]
        /\ (lookup.key \notin DOMAIN settings) => lookup.result = lookup.defaultValue
        /\ (lookup.key \in DOMAIN settings /\ settings[lookup.key] = "") =>
              lookup.result = lookup.defaultValue

C18_Witness ==
    /\ lookup.key = "heading"
    /\ "heading" \in DOMAIN settings
    /\ settings["heading"] = ""
    /\ lookup.defaultValue = "Default"
    /\ lookup.result = "Default"

----------------------------------------------------------------------------
(* Properties of Header *)

\* The step is the activation of the button of item in the given menu
ItemActivated(menu, item) ==
    /\ click' = Click(menu, "item", item.id)
    /\ UNCHANGED <<headerLoads, navigation, programs>>

\* Where a programs item leads
ProgramsTarget(item) ==
    IF Len(programs) = 1 THEN ProgramUrl(programs[1]) ELSE item.url

\* C21: activating a navigation item whose URL is a programs link, in the
\* desktop or in the mobile menu, navigates to the page of the program
\* ('/programs/<slug, or id when the slug is empty>') when exactly one
\* published program is loaded, and to the item's own URL with zero or with
\* two or more programs.
C21_ProgramsItemLeadsToSingleProgram ==
    [][ \A i \in 1..Len(navigation), menu \in {"desktop", "mobile"} :
           ItemActivated(menu, navigation[i]) /\ isProgramsLink(navigation[i].url)
              => navigatedTo' = ProgramsTarget(navigation[i]) ]_vars

\* The ids of the entries of a list of items
IdsOf(items) == {items[j].id : j \in 1..Len(items)}
ProgramIds == IdsOf(programs)

\* C22: getProgramsChildren returns the empty list for zero or one program
\* and, from two programs on, one entry per program in loaded order with
\* the URL '/programs/<slug or id>'; the dropdown of a programs item in the
\* desktop menu lists the programs exactly when there are two or more of
\* them, in place of the item's own children, and no other dropdown lists
\* a program.
C22_ProgramsDropdownFromTwo ==
    LET listed == getProgramsChildren
    IN /\ Len(programs) < 2 => listed = << >>
       /\ Len(programs) >= 2 =>
             /\ Len(listed) = Len(programs)
             /\ \A i \in 1..Len(programs) :
                   /\ listed[i].id = programs[i].id
                   /\ listed[i].label = programs[i].title
                   /\ listed[i].url[4] = IF programs[i].slug = "" THEN programs[i].id
                                                                 ELSE programs[i].slug
                   /\ SubSeq(listed[i].url, 1, 3) = << "/", "programs", "/" >>
                   /\ Len(listed[i].url) = 4
       /\ \A i \in 1..Len(navigation) :
             LET item == navigation[i]
                 shown == IF hasDropdown(item) THEN DesktopDropdown(item) ELSE << >>
             IN IF isProgramsLink(item.url) /\ Len(programs) >= 2
                THEN shown = listed
                ELSE /\ IdsOf(shown) = IdsOf(item.children)
                     /\ IdsOf(shown) \cap ProgramIds = {}

\* Two or more programs are loaded, the item Programs has children of its
\* own, and an entry of its desktop dropdown has been activated: it led to
\* the page of a program
C22_Witness ==
    /\ Len(programs) >= 2
    /\ \E i \in 1..Len(navigation) :
          /\ isProgramsLink(navigation[i].url)
          /\ Len(navigation[i].children) > 0
    /\ click.menu = "desktop" /\ click.control = "child"
    /\ \E k \in 1..Len(programs) :
          /\ programs[k].slug = ""
          /\ click.item = programs[k].id
          /\ navigatedTo = << "/", "programs", "/", programs[k].id >>


\* The items whose dropdown the mobile menu shows open
OpenDropdowns == {i \in 1..Len(navigation) : MobileDropdownShown(navigation[i])}

\* The step is the activation of a control that navigates
Navigated ==
    /\ click'.control \in {"logo", "item", "child", "admin"}
    /\ UNCHANGED <<headerLoads, navigation, programs>>

\* The step is the activation of the chevron of item i of the mobile menu
Toggles(i) ==
    /\ click' = Click("mobile", "toggle", navigation[i].id)
    /\ UNCHANGED <<headerLoads, navigation, programs>>

\* C26: every navigation made through handleNavigate (logo, menu item,
\* dropdown child, admin button) leaves the mobile menu closed and no
\* dropdown open; at most one mobile dropdown is open at any time; and
\* toggling a dropdown closes it when it was the open one and otherwise
\* makes it the only open one.
C26_NavigationClosesMenus ==
    [][ /\ Navigated =>
              /\ navigatedTo' # NoPath
              /\ ~isMenuOpen'
              /\ openDropdown' = "null"
              /\ OpenDropdowns' = {}
        /\ Cardinality(OpenDropdowns') <= 1
        /\ \A i \in 1..Len(navigation) :
              Toggles(i) =>
                 /\ isMenuOpen /\ isMenuOpen'
                 /\ OpenDropdowns' = IF i \in OpenDropdowns THEN {} ELSE {i} ]_vars

\* A child of the dropdown opened in the mobile menu has been activated:
\* the page was navigated to, the menu is closed and no dropdown is open
C26_Witness ==
    /\ click = Click("mobile", "child", "team")
    /\ navigatedTo = << "/", "about", "/", "team" >>
    /\ ~isMenuOpen
    /\ openDropdown = "null"

----------------------------------------------------------------------------
(* Properties of concurrent requests of the modal *)

\* The step is the resolution of a loadForm call made for fid
LoadResolved(fid) == pendingLoads'[fid] < pendingLoads[fid]

\* C23: when the form identifier has changed while an earlier load was
\* outstanding, then whatever the order of the responses, once the last of
\* them has resolved (each read returning its data) the form definition and
\* the field list shown are those of the latest form identifier.
C23_LatestFormAfterAllLoads ==
    [][ \A fid \in FormIds :
           ( /\ LoadResolved(fid)
             /\ mounted
             /\ TotalLoads' = 0
             /\ form' = StoredForm(fid)
             /\ fields' = StoredFields(fid)
             /\ fid # formId => form = StoredForm(formId) /\ fields = StoredFields(formId) )
           => /\ form'.id = formId'
              /\ fields' = StoredFields(formId') ]_vars

\* C24: the record persisted by a submit is built from the draft as it is
\* when the submit attempt passes validation; a field edit made while the
\* insert is in flight changes neither the record in flight nor the table,
\* touches the draft of the edited field only, and the resolution of the
\* insert, with or without error, persists the record as it was issued (or
\* nothing) and leaves the draft as it is.
C24_RecordIsDraftAtSubmit ==
    [][ /\ last'.op = "submitted" =>
              /\ inflight' = Append(inflight, IssuedRow')
              /\ IssuedRow'.responses = Responses(fields, formData)
              /\ formData' = formData
        /\ (last'.op = "change" /\ inflight # << >>) =>
              /\ inflight' = inflight
              /\ submissions' = submissions
              /\ \A f \in AllFieldIds \ {last'.f} : formData'[f] = formData[f]
        /\ last'.op \in {"inserted", "insertFailed"} =>
              /\ formData' = formData
              /\ \E k \in 1..Len(inflight) :
                    /\ inflight' = RemoveAt(inflight, k)
                    /\ submissions' = IF last'.op = "inserted"
                                      THEN Append(submissions, inflight[k])
                                      ELSE submissions ]_vars

\* The insert of a submit of form f1 has resolved without error after the
\* draft was edited while it was in flight: the row in the table carries
\* the responses of the submit, and the draft the later edit
C24_Witness ==
    /\ mounted
    /\ last.op = "inserted"
    /\ Len(submissions) = 1
    /\ form = StoredForm("f1") /\ fields = StoredFields("f1")
    /\ DOMAIN submissions[1].responses = LabelsOf(fields)
    /\ submissions[1].responses["Name"] = Str(<<"a">>)
    /\ formData["n"] = Str(<<>>)
    /\ submissions[1].responses # Responses(fields, formData)

----------------------------------------------------------------------------
(* Properties of SettingsManager *)

\* The timer started by the save that set the message is due
OwnTimerDue == \E t \in timers : t.save = messageBy /\ t.due <= now

\* C25: the result message set when a save completes stays shown until the
\* 3-second timer started by that same save is due and runs, or a later
\* save replaces it, so that the timer of an earlier save does not cut the
\* message of a later save short; and while a save is in flight no second
\* update call is issued.
C25_MessageShownUntilOwnTimer ==
    [][ /\ updates' <= 1
        /\ message' # "" <=> messageBy' # 0
        /\ (messageBy # 0 /\ messageBy' # messageBy) =>
              \/ messageBy' > messageBy /\ message' \in {SavedMessage, ErrorMessage}
              \/ messageBy' = 0 /\ message' = "" /\ OwnTimerDue ]_vars
====
